---------------------------- MODULE Spec2Model ----------------------------
(* A model of usage/simple-test.py: record microphone audio, encode it to   *)
(* raw PCM, upload it to the transcription API and print the transcript.    *)
(*                                                                          *)
(* Numbers.  A sample is a float32 in the source; here a sample is an       *)
(* integer s standing for s/2, so -2 is -1.0, 1 is 0.5 and -4 is -2.0.  For *)
(* the samples used every product with a scale factor is exact in float32.  *)
(* A duration is an integer d standing for d/2 seconds.                     *)
EXTENDS Integers, Sequences, FiniteSets, TLC

VARIABLES
    pc,            \* where main (or the direct call) stands
    argv,          \* the command line, before argparse
    args,          \* the parsed options (argparse's Namespace)
    response,      \* the probe's reply
    audio_data,    \* the recorded buffer
    enc,           \* outcome of the call of convert_to_pcm_bytes
    tx,            \* outcome of the call of transcribe_audio
    post_response, \* the server's reply to the upload
    calls,         \* the calls of record_audio and convert_to_pcm_bytes, with their arguments
    steps,         \* external steps taken so far, in order, each with its success
    out,           \* what was printed
    exit_code      \* <<status>> once the process has ended, <<>> while it runs

vars == <<pc, argv, args, response, audio_data, enc, tx, post_response, calls,
          steps, out, exit_code>>

-----------------------------------------------------------------------------
(* Bounds of the model *)

MaxFrames == 2
MaxDurationHalves == 2
MaxDevices == 1

(* Program constants *)

DEFAULT_CHANNELS == 1
DEFAULT_BIT_DEPTH == 16
API_BASE_URL == "http://127.0.0.1:8080"

-----------------------------------------------------------------------------
(* Integer helpers *)

Pow2(n) == 2 ^ n

\* float -> int conversion truncates toward zero
Trunc(num, den) == IF num >= 0 THEN num \div den ELSE -((-num) \div den)

\* two's-complement reading of the low w bits of x
Wrap(x, w) ==
    LET m == x % Pow2(w)
    IN  IF m >= Pow2(w - 1) THEN m - Pow2(w) ELSE m

\* -2^(w-1) <= x < 2^(w-1), written with 2^(w-2) so that no intermediate
\* value leaves TLC's 32-bit integers when w = 32
InRange(x, w) ==
    LET h == Pow2(w - 2)
    IN  (-h) - h <= x /\ x - h < h

\* ndarray.astype to a signed integer of w bits.  A float outside the
\* target's range is undefined in C: the build either wraps or saturates to
\* the minimum.
UBModes == {"wrap", "min"}

astype(x, w, ub) ==
    IF InRange(x, w) THEN x
    ELSE IF ub = "wrap" THEN Wrap(x, w) ELSE -Pow2(w - 1)

\* the non-negative value x as n little-endian bytes (tobytes on a
\* little-endian host, to_bytes(n, "little"))
RECURSIVE LittleEndian(_, _)
LittleEndian(x, n) ==
    IF n = 0 THEN <<>> ELSE <<x % 256>> \o LittleEndian(x \div 256, n - 1)

RECURSIVE Flatten(_)
Flatten(rows) ==
    IF rows = <<>> THEN <<>> ELSE Head(rows) \o Flatten(Tail(rows))

-----------------------------------------------------------------------------
(* convert_to_pcm_bytes *)

Returned(bytes) == [raised |-> "none", bytes |-> bytes]
Raised(exc) == [raised |-> exc, bytes |-> <<>>]

\* int.to_bytes(length, "little", signed=True)
to_bytes(x, length) ==
    IF InRange(x, 8 * length)
    THEN Returned(LittleEndian(x % Pow2(8 * length), length))
    ELSE Raised("OverflowError")

\* (audio_data * 32767).astype(np.int16).tobytes()
RECURSIVE tobytes16(_, _)
tobytes16(flat, ub) ==
    IF flat = <<>> THEN <<>>
    ELSE LittleEndian(astype(Trunc(Head(flat) * 32767, 2), 16, ub) % Pow2(16), 2)
         \o tobytes16(Tail(flat), ub)

\* (audio_data * 2147483647).astype(np.int32).tobytes().  2147483647 is
\* 2^31 in float32, so the product for sample s/2 is s * 2^30 exactly; it is
\* held as the multiple s * 2^14 of 2^16 (the low 16 bits are zero).
Hi32(s, ub) == astype(s * 16384, 16, ub)

RECURSIVE tobytes32(_, _)
tobytes32(flat, ub) ==
    IF flat = <<>> THEN <<>>
    ELSE <<0, 0>> \o LittleEndian(Hi32(Head(flat), ub) % Pow2(16), 2)
         \o tobytes32(Tail(flat), ub)

\* the loop over pcm_data.flat of the 24-bit branch.  The loop variable, and
\* so sample & 0xFFFFFF, is a numpy integer scalar, not a Python int: numpy's
\* integer scalars offer tobytes() but no to_bytes(), and the call raises
\* AttributeError (scalar_to_bytes FALSE).  scalar_to_bytes TRUE is the
\* behaviour were the scalar to act as a Python int; both are kept.
RECURSIVE loop24(_, _, _)
loop24(pcm_flat, bytes_data, scalar_to_bytes) ==
    IF pcm_flat = <<>> THEN Returned(bytes_data)
    ELSE IF ~scalar_to_bytes THEN Raised("AttributeError")
    ELSE LET sample_24bit == Head(pcm_flat) % 16777216
             b == to_bytes(sample_24bit, 3)
         IN  IF b.raised # "none" THEN b
             ELSE loop24(Tail(pcm_flat), bytes_data \o b.bytes, scalar_to_bytes)

\* (audio_data * 8388607).astype(np.int32)
pcm24(flat, ub) ==
    [i \in 1..Len(flat) |-> astype(Trunc(flat[i] * 8388607, 2), 32, ub)]

\* the final else falling back to the default depth instead of raising
convert_default16(audio_data_, bit_depth, b) ==
    IF bit_depth = 24
    THEN loop24(pcm24(Flatten(audio_data_.rows), b.ub), <<>>, b.scalar_to_bytes)
    ELSE IF bit_depth = 32
    THEN Returned(tobytes32(Flatten(audio_data_.rows), b.ub))
    ELSE Returned(tobytes16(Flatten(audio_data_.rows), b.ub))

convert_to_pcm_bytes(audio_data_, bit_depth, b) ==
    IF bit_depth = 16
    THEN Returned(tobytes16(Flatten(audio_data_.rows), b.ub))
    ELSE IF bit_depth = 24
    THEN loop24(pcm24(Flatten(audio_data_.rows), b.ub), <<>>, b.scalar_to_bytes)
    ELSE IF bit_depth = 32
    THEN Returned(tobytes32(Flatten(audio_data_.rows), b.ub))
    ELSE Raised("ValueError")

-----------------------------------------------------------------------------
(* Inputs *)

Builds == [ub : UBModes, scalar_to_bytes : BOOLEAN]

ChannelCounts == {1, 2}

\* -2.0, -1.0, -0.5, 0.0, 0.5, 1.0
SampleVals == {-4, -2, -1, 0, 1, 2}

\* what sd.rec delivers: samples in [-1.0, 1.0]
RecordedVals == {-2, 1}

Buffers(F, C, vals) ==
    { [shape |-> <<F, C>>, rows |-> r] : r \in [1..F -> [1..C -> vals]] }

BitDepthChoices == {16, 24, 32}

\* bit depths a direct caller may pass
AnyBitDepths == {0, 8, 16, 24, 32}

-----------------------------------------------------------------------------
(* Python values *)

None == [t |-> "None", v |-> <<>>]
Dict(d) == [t |-> "dict", v |-> d]
List(l) == [t |-> "list", v |-> l]

\* bool(value), as `if result:` takes it
Truthy(value) ==
    IF value.t = "None" THEN FALSE
    ELSE IF value.t = "dict" THEN DOMAIN value.v # {}
    ELSE Len(value.v) > 0

\* the test `is not None`: only None is rejected
IsNotNone(value) == value.t # "None"

\* str(n) of an int: its decimal digits, with a sign
DigitChars == <<"0", "1", "2", "3", "4", "5", "6", "7", "8", "9">>

RECURSIVE Digits(_)
Digits(n) ==
    IF n < 10 THEN <<DigitChars[n + 1]>>
    ELSE Digits(n \div 10) \o <<DigitChars[(n % 10) + 1]>>

str(n) == IF n < 0 THEN <<"-">> \o Digits(-n) ELSE Digits(n)

\* int(s) of a decimal string, as the server reads a form field
DigitVal(ch) == CHOOSE d \in 0..9 : DigitChars[d + 1] = ch

RECURSIVE ParseDigits(_, _)
ParseDigits(s, acc) ==
    IF s = <<>> THEN acc ELSE ParseDigits(Tail(s), 10 * acc + DigitVal(Head(s)))

int(s) == IF Head(s) = "-" THEN -ParseDigits(Tail(s), 0) ELSE ParseDigits(s, 0)

\* f"{x:.2f}" of a confidence given in thousandths: hundredths, rounded
Fmt2f(c) == (c + 5) \div 10

Msg(m, a) == [msg |-> m, arg |-> a]

-----------------------------------------------------------------------------
(* transcribe_audio *)

\* a reply to an HTTP request: the transport failed (requests raises a
\* RequestException) or a response came back.  body.json tells whether the
\* body parses as JSON, body.value is what response.json() then returns.
ConnError == [kind |-> "RequestException", status_code |-> 0,
              body |-> [json |-> FALSE, value |-> None]]
Response(status, body) == [kind |-> "response", status_code |-> status, body |-> body]

TxResult(request, raised, value, printed) ==
    [request |-> request, raised |-> raised, value |-> value, printed |-> printed]

\* the handler except requests.RequestException missing the JSON decode error
transcribe_audio_json_uncaught(audio_bytes, sample_rate, channels, bit_depth, api_url, reply) ==
    LET request == [url |-> [base |-> api_url, path |-> "/transcribe/upload"],
                    files |-> [audio |-> [filename |-> "audio.pcm",
                                          content |-> audio_bytes,
                                          content_type |-> "application/octet-stream"]],
                    data |-> [sample_rate |-> str(sample_rate),
                              channels |-> str(channels),
                              bit_depth |-> str(bit_depth)],
                    timeout |-> 30]
        sending == <<Msg("Sending audio to transcription API", <<>>)>>
    IN  IF reply.kind = "RequestException"
        THEN TxResult(request, "none", None, sending \o <<Msg("Request failed", <<>>)>>)
        ELSE IF reply.status_code = 200
        THEN IF reply.body.json
             THEN TxResult(request, "none", reply.body.value, sending)
             ELSE TxResult(request, "JSONDecodeError", None, sending)
        ELSE TxResult(request, "none", None,
                      sending \o <<Msg("API error", reply.status_code),
                                   IF reply.body.json
                                   THEN Msg("Error details", reply.body.value)
                                   ELSE Msg("Response", <<>>)>>)

transcribe_audio(audio_bytes, sample_rate, channels, bit_depth, api_url, reply) ==
    LET request == [url |-> [base |-> api_url, path |-> "/transcribe/upload"],
                    files |-> [audio |-> [filename |-> "audio.pcm",
                                          content |-> audio_bytes,
                                          content_type |-> "application/octet-stream"]],
                    data |-> [sample_rate |-> str(sample_rate),
                              channels |-> str(channels),
                              bit_depth |-> str(bit_depth)],
                    timeout |-> 30]
        sending == <<Msg("Sending audio to transcription API", <<>>)>>
    IN  IF reply.kind = "RequestException"
        THEN TxResult(request, "none", None, sending \o <<Msg("Request failed", <<>>)>>)
        ELSE IF reply.status_code = 200
        THEN IF reply.body.json
             THEN TxResult(request, "none", reply.body.value, sending)
             \* response.json() raises requests' JSONDecodeError, a RequestException
             ELSE TxResult(request, "none", None,
                           sending \o <<Msg("Request failed", <<>>)>>)
        ELSE TxResult(request, "none", None,
                      sending \o <<Msg("API error", reply.status_code),
                                   IF reply.body.json
                                   THEN Msg("Error details", reply.body.value)
                                   ELSE Msg("Response", <<>>)>>)

-----------------------------------------------------------------------------
(* the rendering at the end of main *)

Rendered(raised, printed) == [raised |-> raised, printed |-> printed]

HasKey(value, k) == value.t = "dict" /\ k \in DOMAIN value.v

SegmentKeys == {"start", "end", "confidence", "text"}

RECURSIVE render_segments(_, _, _)
render_segments(segments, i, printed) ==
    IF i > Len(segments) THEN Rendered("none", printed)
    ELSE IF ~(SegmentKeys \subseteq DOMAIN segments[i])
    THEN Rendered("KeyError", printed)
    ELSE render_segments(segments, i + 1,
             printed \o <<Msg("segment",
                 [index |-> i, start |-> segments[i].start, end |-> segments[i].end,
                  confidence |-> Fmt2f(segments[i].confidence),
                  text |-> segments[i].text])>>)

\* lines 232-243: the branch of `if result:`
render(result) ==
    LET header == <<Msg("TRANSCRIPTION RESULT:", <<>>)>>
    IN  IF result.t # "dict" THEN Rendered("TypeError", header)
        ELSE IF ~HasKey(result, "text") THEN Rendered("KeyError", header)
        ELSE LET text == header \o <<Msg("Text", result.v.text)>>
             IN  IF HasKey(result, "segments") /\ Len(result.v.segments) > 0
                 THEN render_segments(result.v.segments, 1,
                                      text \o <<Msg("Segments:", <<>>)>>)
                 ELSE Rendered("none", text)

-----------------------------------------------------------------------------
(* What the outside world may answer *)

Omitted == [given |-> FALSE, v |-> 0]
OmittedUrl == [given |-> FALSE, v |-> ""]
Given(x) == [given |-> TRUE, v |-> x]

SampleRates == {1, 2}

\* the command lines: -d and -r always given, -c and -b given or left out,
\* -b possibly with a value argparse does not accept
Argvs ==
    [duration : 0..MaxDurationHalves,
     sample_rate : SampleRates,
     channels : {Omitted} \cup {Given(c) : c \in ChannelCounts},
     bit_depth : {Omitted} \cup {Given(b) : b \in {8, 16, 24, 32}},
     api_url : {OmittedUrl, Given("http://server:9000")},
     list_devices : BOOLEAN]

NoBody == [json |-> FALSE, value |-> None]

ProbeReplies == {ConnError} \cup {Response(s, NoBody) : s \in {200, 204, 404}}

EmptyDict == [k \in {} |-> <<>>]
GoodSegment == [start |-> 0, end |-> 1, confidence |-> 954, text |-> "test"]
BadSegment == [start |-> 0, end |-> 1, text |-> "test"]

JsonValues ==
    {None, Dict(EmptyDict), List(<<>>), List(<<1>>),
     Dict([detail |-> "error"]),
     Dict([text |-> "hello"]),
     Dict([text |-> "hello", segments |-> <<>>]),
     Dict([text |-> "test", segments |-> <<GoodSegment>>]),
     Dict([text |-> "test", segments |-> <<GoodSegment, BadSegment>>])}

UploadReplies ==
    {ConnError}
    \cup {Response(200, [json |-> TRUE, value |-> v]) : v \in JsonValues}
    \cup {Response(200, NoBody), Response(500, NoBody),
          Response(500, [json |-> TRUE, value |-> Dict([detail |-> "error"])]),
          Response(204, NoBody)}

-----------------------------------------------------------------------------
(* main *)

NoArgs == [duration |-> 0, sample_rate |-> 1, channels |-> DEFAULT_CHANNELS,
           bit_depth |-> DEFAULT_BIT_DEPTH, api_url |-> API_BASE_URL,
           list_devices |-> FALSE]
NoResponse == [request |-> [url |-> [base |-> "", path |-> ""], timeout |-> 0],
               reply |-> ConnError]
NoAudio == [shape |-> <<0, 0>>, rows |-> <<>>]
NoEnc == Raised("not called")
NoTx == TxResult(<<>>, "not called", None, <<>>)

Step(op, ok) == [op |-> op, ok |-> ok]

Exit(code) == pc' = "exit" /\ exit_code' = <<code>>

Init ==
    /\ pc = "start"
    /\ argv \in Argvs
    /\ args = NoArgs
    /\ response = NoResponse
    /\ audio_data = NoAudio
    /\ enc = NoEnc
    /\ tx = NoTx
    /\ post_response = ConnError
    /\ calls = <<>>
    /\ steps = <<>>
    /\ out = <<>>
    /\ exit_code = <<>>

\* lines 146-189: argparse; a -b outside choices ends the run with status 2
ParseArgs ==
    /\ pc = "start"
    /\ IF argv.bit_depth.given /\ argv.bit_depth.v \notin BitDepthChoices
       THEN /\ out' = out \o <<Msg("usage error: invalid choice", argv.bit_depth.v)>>
            /\ Exit(2)
            /\ UNCHANGED args
       ELSE /\ args' = [duration |-> argv.duration,
                        sample_rate |-> argv.sample_rate,
                        channels |-> IF argv.channels.given THEN argv.channels.v
                                     ELSE DEFAULT_CHANNELS,
                        bit_depth |-> IF argv.bit_depth.given THEN argv.bit_depth.v
                                      ELSE DEFAULT_BIT_DEPTH,
                        api_url |-> IF argv.api_url.given THEN argv.api_url.v
                                    ELSE API_BASE_URL,
                        list_devices |-> argv.list_devices]
            /\ pc' = IF argv.list_devices THEN "list" ELSE "probe"
            /\ UNCHANGED <<out, exit_code>>
    /\ UNCHANGED <<argv, response, audio_data, enc, tx, post_response, calls, steps>>

\* the branch without its return: the run goes on to the probe
ListDevicesFallThrough ==
    /\ pc = "list"
    /\ \E devices \in 0..MaxDevices :
          out' = out \o <<Msg("Available audio devices:", <<>>), Msg("devices", devices)>>
    /\ pc' = "probe"
    /\ UNCHANGED <<argv, args, response, audio_data, enc, tx, post_response, calls,
                   steps, exit_code>>

\* lines 191-194: list the devices and return
ListDevices ==
    /\ pc = "list"
    /\ \E devices \in 0..MaxDevices :
          out' = out \o <<Msg("Available audio devices:", <<>>), Msg("devices", devices)>>
    /\ Exit(0)
    /\ UNCHANGED <<argv, args, response, audio_data, enc, tx, post_response, calls, steps>>

\* a warning for every status outside 200..299 only
ProbeWarnsNon2xx(status_code) == status_code < 200 \/ status_code > 299

\* line 201: every status but 200 draws the warning
ProbeWarns(status_code) == status_code # 200

\* the probe ending the run where sys.exit(1) was left out of the handler
ProbeNoExit ==
    /\ pc = "probe"
    /\ \E reply \in ProbeReplies :
        LET request == [url |-> [base |-> args.api_url, path |-> "/"], timeout |-> 5]
            testing == <<Msg("Testing API connection", <<>>)>>
        IN  /\ response' = [request |-> request, reply |-> reply]
            /\ steps' = Append(steps, Step("GET", reply.kind = "response"))
            /\ pc' = "record"
            /\ UNCHANGED exit_code
            /\ out' = out \o testing \o
                      (IF reply.kind # "response" THEN <<Msg("Cannot connect to API", <<>>)>>
                       ELSE IF ProbeWarns(reply.status_code)
                       THEN <<Msg("API returned status", reply.status_code)>>
                       ELSE <<Msg("API is accessible", <<>>)>>)
    /\ UNCHANGED <<argv, args, audio_data, enc, tx, post_response, calls>>

\* lines 196-208: the connectivity probe
Probe ==
    /\ pc = "probe"
    /\ \E reply \in ProbeReplies :
        LET request == [url |-> [base |-> args.api_url, path |-> "/"], timeout |-> 5]
            testing == <<Msg("Testing API connection", <<>>)>>
        IN  /\ response' = [request |-> request, reply |-> reply]
            /\ steps' = Append(steps, Step("GET", reply.kind = "response"))
            /\ IF reply.kind = "response"
               THEN /\ out' = out \o testing \o
                              <<IF ProbeWarns(reply.status_code)
                                THEN Msg("API returned status", reply.status_code)
                                ELSE Msg("API is accessible", <<>>)>>
                    /\ pc' = "record"
                    /\ UNCHANGED exit_code
               ELSE /\ out' = out \o testing \o
                              <<Msg("Cannot connect to API", <<>>),
                                Msg("Make sure the Rust server is running", <<>>)>>
                    /\ Exit(1)
    /\ UNCHANGED <<argv, args, audio_data, enc, tx, post_response, calls>>

\* lines 210-216 with record_audio (lines 41-56)
Record ==
    /\ pc = "record"
    /\ LET frames == Trunc(args.duration * args.sample_rate, 2)
           speak == <<Msg("Recording for", args.duration), Msg("Speak now!", <<>>)>>
       IN  /\ calls' = Append(calls, [fn |-> "record_audio", duration |-> args.duration,
                                       sample_rate |-> args.sample_rate,
                                       channels |-> args.channels, frames |-> frames])
           /\ \/ \E a \in Buffers(frames, args.channels, RecordedVals) :
                   /\ audio_data' = a
                   /\ steps' = Append(steps, Step("record", TRUE))
                   /\ out' = out \o speak \o <<Msg("Recording complete!", <<>>)>>
                   /\ pc' = "encode"
                   /\ UNCHANGED exit_code
              \/ /\ steps' = Append(steps, Step("record", FALSE))
                 /\ out' = out \o speak \o
                           <<Msg("Recording failed", <<>>),
                             Msg("Make sure you have a working microphone", <<>>)>>
                 /\ Exit(1)
                 /\ UNCHANGED audio_data
    /\ UNCHANGED <<argv, args, response, enc, tx, post_response>>

\* lines 218-224
Encode ==
    /\ pc = "encode"
    /\ \E b \in Builds :
        LET r == convert_to_pcm_bytes(audio_data, args.bit_depth, b)
        IN  /\ enc' = r
            /\ calls' = Append(calls, [fn |-> "convert_to_pcm_bytes",
                                       bit_depth |-> args.bit_depth])
            /\ steps' = Append(steps, Step("encode", r.raised = "none"))
            /\ IF r.raised = "none"
               THEN /\ out' = out \o <<Msg("Audio converted", Len(r.bytes))>>
                    /\ pc' = "transcribe"
                    /\ UNCHANGED exit_code
               ELSE /\ out' = out \o <<Msg("Audio conversion failed", r.raised)>>
                    /\ Exit(1)
    /\ UNCHANGED <<argv, args, response, audio_data, tx, post_response>>

\* what main hands to transcribe_audio, with two arguments exchanged
UploadArgsSwapped == [sample_rate |-> args.channels, channels |-> args.sample_rate,
                      bit_depth |-> args.bit_depth]

\* lines 227-229: what main hands to transcribe_audio
UploadArgs == [sample_rate |-> args.sample_rate, channels |-> args.channels,
               bit_depth |-> args.bit_depth]

\* lines 227-229: the upload; an exception leaving transcribe_audio would end
\* main with a traceback and status 1
Transcribe ==
    /\ pc = "transcribe"
    /\ \E reply \in UploadReplies :
        LET r == transcribe_audio(enc.bytes, UploadArgs.sample_rate, UploadArgs.channels,
                                  UploadArgs.bit_depth, args.api_url, reply)
        IN  /\ tx' = r
            /\ post_response' = reply
            /\ steps' = Append(steps, Step("POST", r.raised = "none" /\ Truthy(r.value)))
            /\ out' = out \o r.printed
            /\ IF r.raised = "none"
               THEN pc' = "result" /\ UNCHANGED exit_code
               ELSE Exit(1)
    /\ UNCHANGED <<argv, args, response, audio_data, enc, calls>>

\* every reply taken for a transcript
AcceptsAll(result) == TRUE

\* the test `if result:` of line 231
Accepts(result) == Truthy(result)

\* lines 231-246: render the result, or report the failure
Finish ==
    /\ pc = "result"
    /\ IF Accepts(tx.value)
       THEN LET r == render(tx.value)
            IN  /\ steps' = Append(steps, Step("render", r.raised = "none"))
                /\ out' = out \o r.printed
                /\ Exit(IF r.raised = "none" THEN 0 ELSE 1)
       ELSE /\ out' = out \o <<Msg("Transcription failed!", <<>>)>>
            /\ Exit(1)
            /\ UNCHANGED steps
    /\ UNCHANGED <<argv, args, response, audio_data, enc, tx, post_response, calls>>

Next == ParseArgs \/ ListDevices \/ Probe \/ Record \/ Encode \/ Transcribe \/ Finish

Spec == Init /\ [][Next]_vars

-----------------------------------------------------------------------------
(* convert_to_pcm_bytes called directly, with any buffer and any bit depth *)

InitPcm ==
    /\ pc = "call"
    /\ argv \in {a \in Argvs : a.duration = 0 /\ a.sample_rate = 1 /\ ~a.list_devices
                               /\ ~a.channels.given /\ ~a.bit_depth.given
                               /\ ~a.api_url.given}
    /\ \E bd \in AnyBitDepths : args = [NoArgs EXCEPT !.bit_depth = bd]
    /\ response = NoResponse
    /\ \E F \in 0..MaxFrames, C \in ChannelCounts : audio_data \in Buffers(F, C, SampleVals)
    /\ enc = NoEnc
    /\ tx = NoTx
    /\ post_response = ConnError
    /\ calls = <<>>
    /\ steps = <<>>
    /\ out = <<>>
    /\ exit_code = <<>>

CallConvert ==
    /\ pc = "call"
    /\ \E b \in Builds : enc' = convert_to_pcm_bytes(audio_data, args.bit_depth, b)
    /\ pc' = "returned"
    /\ UNCHANGED <<argv, args, response, audio_data, tx, post_response, calls, steps,
                   out, exit_code>>

NextPcm == CallConvert

SpecPcm == InitPcm /\ [][NextPcm]_vars

-----------------------------------------------------------------------------
(* Vocabulary of the properties *)

Exited == pc = "exit"
Code == exit_code[1]
Printed(m) == \E i \in 1..Len(out) : out[i].msg = m
StepTaken(op, ok) == \E i \in 1..Len(steps) : steps[i].op = op /\ steps[i].ok = ok
StepStarted(op) == \E i \in 1..Len(steps) : steps[i].op = op
Count(op) == Cardinality({i \in 1..Len(steps) : steps[i].op = op})

ArgsRejected == Printed("usage error: invalid choice")
ListedDevices == Printed("devices")
ProbeUnreachable == StepTaken("GET", FALSE)
RecordingError == StepTaken("record", FALSE)
EncodingError == StepTaken("encode", FALSE)
Posted == tx.raised # "not called"
ResultAbsent == Posted /\ tx.value.t = "None"
ResultFalsy == Posted /\ ~Truthy(tx.value)
RenderedResult == StepTaken("render", TRUE)
RenderingRaised == StepTaken("render", FALSE)

ProbeAnswered == StepTaken("GET", TRUE)
ProbeStatus == response.reply.status_code
Warned == Printed("API returned status")

-----------------------------------------------------------------------------
(* C1 *)

-----------------------------------------------------------------------------
(* C2 *)

Order == <<"GET", "record", "encode", "POST", "render">>

\* C2: the steps taken are an initial part of probe GET, record, encode,
\* upload POST, render, in that order; every step but the last taken has
\* succeeded; a failed step leaves the run ended or about to report the
\* failure; at most one GET and one POST are issued.
C2_LinearOrder ==
    /\ Len(steps) <= Len(Order)
    /\ \A i \in 1..Len(steps) :
          /\ steps[i].op = Order[i]
          /\ i < Len(steps) => steps[i].ok
    /\ (steps # <<>> /\ ~steps[Len(steps)].ok) => pc \in {"exit", "result"}
    /\ Count("GET") <= 1
    /\ Count("POST") <= 1

C2_Witness ==
    /\ Exited
    /\ Len(steps) = 4
    /\ ~steps[4].ok
    /\ post_response.kind = "response" /\ post_response.status_code = 500

-----------------------------------------------------------------------------
(* C3 *)

-----------------------------------------------------------------------------
(* C4 *)

ProbeOutcome(warns(_)) ==
    /\ ProbeAnswered =>
          /\ response.request.url = [base |-> args.api_url, path |-> "/"]
          /\ pc = "record" \/ StepStarted("record")
          /\ Warned <=> warns(ProbeStatus)
          /\ Printed("API is accessible") <=> ~warns(ProbeStatus)
          /\ ~Printed("Cannot connect to API")
    /\ ProbeUnreachable =>
          /\ Exited /\ Code = 1
          /\ Printed("Cannot connect to API")
          /\ ~StepStarted("record") /\ ~StepStarted("POST")
          /\ calls = <<>> /\ ~Posted

Non2xx(status_code) == status_code < 200 \/ status_code > 299
Not200(status_code) == status_code # 200

\* C4, as stated: any HTTP response lets the run go on to the recording, with
\* a warning exactly for a non-2xx status; a connection failure ends the run
\* with status 1 before any recording or upload.
C4_AsStated == ProbeOutcome(Non2xx)

\* C4, amended: any HTTP response lets the run go on to the recording, with
\* a warning exactly for a status other than 200; a connection failure ends
\* the run with status 1 before any recording or upload.
C4_ProbeFatalOnlyOnTransport == ProbeOutcome(Not200)

C4_Witness == ProbeAnswered /\ ProbeStatus = 204 /\ Warned /\ StepStarted("record")

-----------------------------------------------------------------------------
(* C5 *)

TxPrinted(m) == \E i \in 1..Len(tx.printed) : tx.printed[i].msg = m

\* C5: transcribe_audio never raises; on 200 with a JSON body it returns that
\* body unchanged; on another status it prints the status and returns None;
\* on a transport failure, or a 200 whose body is not JSON, it prints the
\* error and returns None.
C5_TranscribeNeverRaises ==
    Posted =>
        /\ tx.raised = "none"
        /\ IF post_response.kind = "response" /\ post_response.status_code = 200
              /\ post_response.body.json
           THEN /\ tx.value = post_response.body.value
                /\ ~TxPrinted("Request failed") /\ ~TxPrinted("API error")
           ELSE IF post_response.kind = "response" /\ post_response.status_code # 200
           THEN /\ tx.value.t = "None"
                /\ \E i \in 1..Len(tx.printed) :
                      /\ tx.printed[i].msg = "API error"
                      /\ tx.printed[i].arg = post_response.status_code
           ELSE /\ tx.value.t = "None"
                /\ TxPrinted("Request failed")

C5_Witness ==
    /\ Posted
    /\ post_response.kind = "response" /\ post_response.status_code = 200
    /\ ~post_response.body.json
    /\ pc = "result"

-----------------------------------------------------------------------------
(* C6 *)

\* C6: for bit_depth 16, 24 or 32 and a buffer of F frames and C channels,
\* convert_to_pcm_bytes returns F * C * (bit_depth / 8) bytes.
C6_EncodedLength ==
    (pc = "returned" /\ args.bit_depth \in BitDepthChoices) =>
        /\ enc.raised = "none"
        /\ Len(enc.bytes) = audio_data.shape[1] * audio_data.shape[2]
                            * (args.bit_depth \div 8)

-----------------------------------------------------------------------------
(* C7 *)

RECURSIVE TwosComplement24(_)
TwosComplement24(flat) ==
    IF flat = <<>> THEN <<>>
    ELSE LittleEndian(Trunc(Head(flat) * 8388607, 2) % 16777216, 3)
         \o TwosComplement24(Tail(flat))

\* C7: for bit_depth 24 the result is, sample by sample in frame-major order,
\* the three little-endian bytes of the 24-bit two's complement of the sample
\* scaled by 8388607, for negative samples as for positive ones.
C7_TwentyFourBit ==
    (pc = "returned" /\ args.bit_depth = 24) =>
        /\ enc.raised = "none"
        /\ enc.bytes = TwosComplement24(Flatten(audio_data.rows))

-----------------------------------------------------------------------------
(* C8 *)

\* C8: the upload's sample_rate and channels fields read as the numbers
\* passed to the recorder, its bit_depth field as the number passed to the
\* encoder, and its audio field is the encoder's output for the recorded
\* buffer.
C8_UploadMatchesEncoding ==
    Posted =>
        /\ Len(calls) = 2
        /\ calls[1].fn = "record_audio" /\ calls[2].fn = "convert_to_pcm_bytes"
        /\ int(tx.request.data.sample_rate) = calls[1].sample_rate
        /\ int(tx.request.data.channels) = calls[1].channels
        /\ int(tx.request.data.bit_depth) = calls[2].bit_depth
        /\ audio_data.shape = <<calls[1].frames, calls[1].channels>>
        /\ enc.raised = "none"
        /\ \E b \in Builds :
              enc = convert_to_pcm_bytes(audio_data, calls[2].bit_depth, b)
        /\ tx.request.files.audio.content = enc.bytes

C8_Witness ==
    /\ Posted
    /\ calls[1].sample_rate = 1 /\ calls[1].channels = 2
    /\ calls[2].bit_depth = 32
    /\ Len(tx.request.files.audio.content) = 8

-----------------------------------------------------------------------------
(* C9 *)

\* C9: for a bit_depth other than 16, 24 and 32, convert_to_pcm_bytes raises
\* ValueError and yields no bytes, whatever the buffer.
C9_UnsupportedDepthRaises ==
    (pc = "returned" /\ args.bit_depth \notin BitDepthChoices) =>
        /\ enc.raised = "ValueError"
        /\ enc.bytes = <<>>

C9_Witness ==
    /\ pc = "returned"
    /\ args.bit_depth = 8
    /\ audio_data.shape = <<2, 2>>
    /\ enc.raised = "ValueError"

-----------------------------------------------------------------------------
(* C10 *)

\* C10: a falsy value from transcribe_audio, an empty JSON body of a 200
\* reply included, ends the run with status 1 and the transcription-failed
\* message, without rendering anything.
C10_FalsyResultFails ==
    (Exited /\ ResultFalsy) =>
        /\ Code = 1
        /\ Printed("Transcription failed!")
        /\ ~Printed("TRANSCRIPTION RESULT:")
        /\ ~StepStarted("render")

C10_Witness ==
    /\ Exited
    /\ post_response.kind = "response" /\ post_response.status_code = 200
    /\ post_response.body.json
    /\ tx.value.t = "dict" /\ DOMAIN tx.value.v = {}
    /\ Printed("Transcription failed!")

=============================================================================
